---- MODULE Spec2Model ----
\* The rsa command-line program (main.c): main's dispatch and the three
\* subcommands encrypt_mode, decrypt_mode and genkey_mode, statement by
\* statement, with the codec (encode / decode) and the C library and GMP
\* conversions they use.  The functions declared in rsa.h are modelled from
\* their documented contract.
EXTENDS Integers, Sequences, FiniteSets, TLC

\* ---------------------------------------------------------------- bounds

\* Longest ciphertext / numbits argument enumerated.
MaxStrLen == 3
\* Longest message argument enumerated.
MaxMsgLen == 2
\* Longest byte string and largest integer the codec is tried on.
MaxCodecLen == 3
MaxCodecInt == 600
\* Widths of unsigned long and unsigned int, scaled down so that every value
\* fits a 32-bit integer (ULongBits > UIntBits, as on an LP64 build).
ULongBits == 8
UIntBits == 6

ULONG_MAX == 2 ^ ULongBits - 1
UINT_MAX == 2 ^ UIntBits - 1

\* A byte is one word of size 1 in mpz_import / mpz_export.
ByteBase == 256

\* ------------------------------------------------------- C strings, libc

\* Characters the argument strings are built from: '0' '1' '9' '-' '+' ' ' 'x'.
Chars == {48, 49, 57, 45, 43, 32, 120}
\* Bytes the message arguments are built from (never 0: argv holds C strings).
MsgBytes == {1, 104, 105}
\* Bytes the codec's byte strings are built from.
CodecBytes == {0, 1, 2, 104}

RECURSIVE SeqsUpTo(_, _)
SeqsUpTo(S, k) ==
    IF k = 0 THEN {<<>>}
    ELSE LET shorter == SeqsUpTo(S, k - 1)
         IN shorter \cup {Append(s, x) : s \in {t \in shorter : Len(t) = k - 1}, x \in S}

IsSpace(ch) == ch \in {32, 9, 10, 11, 12, 13}
IsDigit(ch) == ch \in 48..57
NotSpace(ch) == ~IsSpace(ch)

\* strlen: the number of bytes before the first NUL of the buffer.
Strlen(buf) ==
    (CHOOSE i \in 1..Len(buf) : buf[i] = 0 /\ \A j \in 1..(i - 1) : buf[j] # 0) - 1

\* The buffer a C string s occupies: its bytes and the terminating NUL.
CString(s) == Append(s, 0)

\* Index of the first character at or after i that is not white space
\* (Len(str) + 1 when there is none).
FirstNonSpace(str, i) ==
    CHOOSE j \in i..(Len(str) + 1) :
        /\ (j <= Len(str) => ~IsSpace(str[j]))
        /\ \A k \in i..(j - 1) : IsSpace(str[k])

\* Number of consecutive decimal digits of str starting at index i.
DigitRun(str, i) ==
    CHOOSE k \in 0..(Len(str) + 1 - i) :
        /\ \A j \in i..(i + k - 1) : IsDigit(str[j])
        /\ (i + k <= Len(str) => ~IsDigit(str[i + k]))

RECURSIVE DecValue(_)
DecValue(digits) ==
    IF digits = <<>> THEN 0
    ELSE DecValue(SubSeq(digits, 1, Len(digits) - 1)) * 10
         + (digits[Len(digits)] - 48)

\* strtoul(str, &endp, 10): optional white space, optional sign, digits.
\* endp is an index into str (1 = str itself, Len(str) + 1 = its NUL).
StrToUL(str) ==
    LET i0 == FirstNonSpace(str, 1)
        hasSign == i0 <= Len(str) /\ str[i0] \in {43, 45}
        neg == hasSign /\ str[i0] = 45
        i1 == IF hasSign THEN i0 + 1 ELSE i0
        nd == DigitRun(str, i1)
        mag == DecValue(SubSeq(str, i1, i1 + nd - 1))
    IN  IF nd = 0 THEN [value |-> 0, endp |-> 1, erange |-> FALSE]
        ELSE IF mag > ULONG_MAX
             THEN [value |-> ULONG_MAX, endp |-> i1 + nd, erange |-> TRUE]
        ELSE [value |-> IF neg THEN (ULONG_MAX + 1 - mag) % (ULONG_MAX + 1) ELSE mag,
              endp |-> i1 + nd, erange |-> FALSE]

\* mpz_set_str(c, str, 10): leading white space, an optional '-' directly
\* followed by a digit, then digits with white space ignored.
MpzSetStr(str) ==
    LET i0 == FirstNonSpace(str, 1)
        neg == i0 <= Len(str) /\ str[i0] = 45
        i1 == IF neg THEN i0 + 1 ELSE i0
        digits == SelectSeq(SubSeq(str, i1, Len(str)), NotSpace)
        valid == /\ i1 <= Len(str)
                 /\ IsDigit(str[i1])
                 /\ \A k \in 1..Len(digits) : IsDigit(digits[k])
    IN  IF valid
        THEN [rc |-> 0, value |-> IF neg THEN 0 - DecValue(digits) ELSE DecValue(digits)]
        ELSE [rc |-> -1, value |-> 0]

\* The "%Zd" conversion of gmp_printf for x >= 0: the decimal digits of x.
RECURSIVE FormatZd(_)
FormatZd(x) ==
    IF x < 10 THEN <<48 + x>>
    ELSE Append(FormatZd(x \div 10), 48 + (x % 10))

\* fwrite(ptr, size, nmemb, stream): the number of whole members written,
\* which is 0 when size is 0.
Fwrite(size, nmemb, ok) == IF size = 0 \/ ~ok THEN 0 ELSE nmemb

\* ---------------------------------------------------------------- codec

\* mpz_import(x, count, 1, 1, 0, 0, s): the first count bytes, big-endian.
RECURSIVE MpzImport_littleEndian(_)
MpzImport_littleEndian(bytes) ==
    IF bytes = <<>> THEN 0
    ELSE bytes[1] + ByteBase * MpzImport_littleEndian(Tail(bytes))

RECURSIVE MpzImport(_)
MpzImport(bytes) ==
    IF bytes = <<>> THEN 0
    ELSE MpzImport(SubSeq(bytes, 1, Len(bytes) - 1)) * ByteBase + bytes[Len(bytes)]

\* mpz_export(NULL, &count, 1, 1, 0, 0, x): the minimal big-endian bytes.
RECURSIVE MpzExport(_)
MpzExport(x) ==
    IF x = 0 THEN <<>>
    ELSE Append(MpzExport(x \div ByteBase), x % ByteBase)

\* encode(x, s): s is a buffer holding a C string, measured with strlen.
encode(s) == MpzImport(SubSeq(s, 1, Strlen(s)))

\* decode(x, &len): the NUL-terminated buffer and the length stored in *len.
decode(x) ==
    LET bytes == MpzExport(x)
    IN  [s |-> Append(bytes, 0), len |-> Len(bytes)]

\* ---------------------------------------------------------------- rsa.h

\* Two key pairs (n = p * q, d * e = 1 mod (p - 1)(q - 1)): 3 * 11 and
\* 163 * 167.
Key1 == [n |-> 33, e |-> 3, d |-> 7]
Key2 == [n |-> 27221, e |-> 5, d |-> 10757]
Keys == {Key1, Key2}

\* rsa_key_init: all three integers are initialised to 0.
ZeroKey == [n |-> 0, e |-> 0, d |-> 0]

RECURSIVE ModExp(_, _, _)
ModExp(b, x, modulus) ==
    IF x = 0 THEN 1 % modulus
    ELSE LET h == ModExp(b, x \div 2, modulus)
             sq == (h * h) % modulus
         IN  IF x % 2 = 1 THEN (sq * (b % modulus)) % modulus ELSE sq

\* rsa_encrypt(c, m, key): c = m^e mod n.
RsaEncrypt(msg, k) == ModExp(msg % k.n, k.e, k.n)
\* rsa_decrypt(m, c, key): m = c^d mod n.
RsaDecrypt(ct, k) == ModExp(ct % k.n, k.d, k.n)

\* Key file names: "p" and "s" hold Key1's public and private record, "S"
\* Key2's private record, "x" a truncated record, "m" does not exist.
PubFile1 == <<112>>
PrivFile1 == <<115>>
PrivFile2 == <<83>>
BadFile == <<120>>
MissingFile == <<109>>
KeyFiles == {PubFile1, PrivFile1, PrivFile2, BadFile, MissingFile}

\* The persisted record of a key file: the decimal fields n, e and, for a
\* private key, d.
FileContent(f) ==
    CASE f = PubFile1 -> [exists |-> TRUE, fields |-> <<Key1.n, Key1.e>>]
      [] f = PrivFile1 -> [exists |-> TRUE, fields |-> <<Key1.n, Key1.e, Key1.d>>]
      [] f = PrivFile2 -> [exists |-> TRUE, fields |-> <<Key2.n, Key2.e, Key2.d>>]
      [] f = BadFile -> [exists |-> TRUE, fields |-> <<Key1.n>>]
      [] OTHER -> [exists |-> FALSE, fields |-> <<>>]

\* rsa_key_load_public: 0 and (n, e) on success (a private exponent in the
\* record is ignored), nonzero on an unreadable or malformed file.
RsaKeyLoadPublic(f) ==
    LET fc == FileContent(f)
    IN  IF fc.exists /\ Len(fc.fields) \in {2, 3}
        THEN [rc |-> 0, key |-> [n |-> fc.fields[1], e |-> fc.fields[2], d |-> 0]]
        ELSE [rc |-> -1, key |-> ZeroKey]

\* rsa_key_load_private: 0 and (n, e, d) on success; fails when d is absent.
RsaKeyLoadPrivate(f) ==
    LET fc == FileContent(f)
    IN  IF fc.exists /\ Len(fc.fields) = 3
        THEN [rc |-> 0,
              key |-> [n |-> fc.fields[1], e |-> fc.fields[2], d |-> fc.fields[3]]]
        ELSE [rc |-> -1, key |-> ZeroKey]

\* rsa_key_write(stdout, key): -1 on a failed write, otherwise a value that
\* is not -1 (0, or the number of fields written).
RsaKeyWriteReturns(ok) == IF ok THEN {0, 3} ELSE {-1}

\* ------------------------------------------------------------ invocations

Rsa == <<114, 115, 97>>
CmdEncrypt == <<101, 110, 99, 114, 121, 112, 116>>
CmdDecrypt == <<100, 101, 99, 114, 121, 112, 116>>
CmdGenkey == <<103, 101, 110, 107, 101, 121>>
CmdHelp == <<104, 101, 108, 112>>
CmdDashH == <<45, 104>>
CmdDashDashHelp == <<45, 45, 104, 101, 108, 112>>
CmdOther == <<102, 114, 111, 98>>
Commands == {CmdEncrypt, CmdDecrypt, CmdGenkey, CmdHelp, CmdDashH, CmdDashDashHelp, CmdOther}

ArgStrings == SeqsUpTo(Chars, MaxStrLen)
Messages == SeqsUpTo(MsgBytes, MaxMsgLen)

\* The argument vectors the program is started with (argv[0] first).
Invocations ==
    {<<Rsa>>}
    \cup {<<Rsa, cmd>> : cmd \in Commands}
    \cup {<<Rsa, cmd, PubFile1>> : cmd \in Commands \ {CmdGenkey}}
    \cup {<<Rsa, cmd, PubFile1, <<49>>, <<49>>>> : cmd \in Commands}
    \cup {<<Rsa, CmdGenkey, <<49>>, <<49>>>>, <<Rsa, CmdOther, PubFile1, <<49>>>>}
    \cup {<<Rsa, CmdEncrypt, f, msg>> : f \in KeyFiles, msg \in Messages}
    \cup {<<Rsa, CmdDecrypt, f, cs>> : f \in KeyFiles, cs \in ArgStrings}
    \cup {<<Rsa, CmdGenkey, nb>> : nb \in ArgStrings}

\* ------------------------------------------------------------------ state

VARIABLES
    argv,       \* the argument vector of the running process
    stdoutOk,   \* whether standard output accepts writes in this run
    pc,         \* the statement the process is at
    rc, key, m, c, message, len, n, numbits,    \* the subcommand's locals
    out,        \* what was written to standard output
    err,        \* what was written to standard error
    exitCode,   \* main's return value, once pc = "exit"
    calls,      \* the library calls made so far, in order
    heap,       \* per resource: its status and how often it was released
    run,        \* 1 for the first process of the session, 2 for the second
    prev        \* the first process's argv, exit code and output

vars == <<argv, stdoutOk, pc, rc, key, m, c, message, len, n, numbits,
          out, err, exitCode, calls, heap, run, prev>>

Resources == {"key", "m", "c", "message"}

NullMessage == [alloc |-> FALSE, s |-> <<>>]

FreshHeap ==
    [st |-> [r \in Resources |-> "uninit"],
     rel |-> [r \in Resources |-> 0],
     bad |-> FALSE]

\* rsa_key_init / mpz_init / malloc of resource r.
ResInit(h, r) == [h EXCEPT !.st[r] = "live"]
\* A read or write of the resources in S.
ResUse(h, S) == [h EXCEPT !.bad = @ \/ \E r \in S : h.st[r] # "live"]
\* rsa_key_clear / mpz_clear / free of resource r.
ResClear(h, r) ==
    [st |-> [h.st EXCEPT ![r] = "released"],
     rel |-> [h.rel EXCEPT ![r] = @ + 1],
     bad |-> h.bad \/ h.st[r] # "live"]

RECURSIVE ResInitAll(_, _)
ResInitAll(h, rs) ==
    IF rs = <<>> THEN h ELSE ResInitAll(ResInit(h, Head(rs)), Tail(rs))

RECURSIVE ResClearAll(_, _)
ResClearAll(h, rs) ==
    IF rs = <<>> THEN h ELSE ResClearAll(ResClear(h, Head(rs)), Tail(rs))

\* free(message): a no-op on NULL.
Free(h, msg) == IF msg.alloc THEN ResClear(h, "message") ELSE h

Call(fn, a, modulus, ret) == [fn |-> fn, a |-> a, n |-> modulus, ret |-> ret]
Text(t) == [text |-> t, data |-> <<>>]

\* C's argv[k].
Arg(k) == argv[k + 1]
argc == Len(argv)

Init ==
    /\ argv \in Invocations
    /\ stdoutOk \in BOOLEAN
    /\ pc = "main"
    /\ rc = 0 /\ key = ZeroKey /\ m = 0 /\ c = 0
    /\ message = NullMessage /\ len = 0 /\ n = 0 /\ numbits = 0
    /\ out = <<>> /\ err = <<>> /\ exitCode = 0
    /\ calls = <<>>
    /\ heap = FreshHeap
    /\ run = 1
    /\ prev = [argv |-> <<>>, exitCode |-> 0, out |-> <<>>]

session == <<argv, stdoutOk, run, prev>>
locals == <<rc, key, m, c, message, len, n, numbits>>

\* ------------------------------------------------------------------- main

\* usage(fp): the usage text, to standard output or standard error.
UsageText == Text("Usage:")

IsHelp_noShortFlag(command) == command \in {CmdDashDashHelp, CmdHelp}

IsHelp(command) == command \in {CmdDashH, CmdDashDashHelp, CmdHelp}

Exit(code) == pc' = "exit" /\ exitCode' = code

Main ==
    /\ pc = "main"
    /\ UNCHANGED <<session, locals, calls, heap>>
    /\ IF argc < 2
       THEN /\ err' = Append(err, UsageText)
            /\ Exit(1)
            /\ UNCHANGED out
       ELSE LET command == Arg(1)
            IN  IF IsHelp(command)
                THEN /\ out' = IF stdoutOk THEN Append(out, UsageText) ELSE out
                     /\ Exit(0)
                     /\ UNCHANGED err
                ELSE IF command = CmdEncrypt
                THEN IF argc # 4
                     THEN /\ err' = Append(err, Text("encrypt needs a key filename and a message"))
                          /\ Exit(1)
                          /\ UNCHANGED out
                     ELSE /\ pc' = "enc_init"
                          /\ UNCHANGED <<out, err, exitCode>>
                ELSE IF command = CmdDecrypt
                THEN IF argc # 4
                     THEN /\ err' = Append(err, Text("decrypt needs a key filename and a ciphertext"))
                          /\ Exit(1)
                          /\ UNCHANGED out
                     ELSE /\ pc' = "dec_init"
                          /\ UNCHANGED <<out, err, exitCode>>
                ELSE IF command = CmdGenkey
                THEN IF argc # 3
                     THEN /\ err' = Append(err, Text("genkey needs a number of bits"))
                          /\ Exit(1)
                          /\ UNCHANGED out
                     ELSE /\ pc' = "gen_init"
                          /\ UNCHANGED <<out, err, exitCode>>
                ELSE /\ err' = Append(err, UsageText)
                     /\ Exit(1)
                     /\ UNCHANGED out

\* ----------------------------------------------------------- encrypt_mode

\* rc != 0 after rsa_key_load_public / rsa_key_load_private.
KeyLoadFailed(r) == r # 0

\* The releases at encrypt_mode's done label.
EncDoneClears_leakC == <<"key", "m">>

EncDoneClears == <<"key", "m", "c">>

EncInit ==
    /\ pc = "enc_init"
    /\ key' = ZeroKey /\ m' = 0 /\ c' = 0
    /\ heap' = ResInitAll(heap, <<"key", "m", "c">>)
    /\ calls' = Append(calls, Call("rsa_key_init", 0, 0, 0))
    /\ pc' = "enc_load"
    /\ UNCHANGED <<session, rc, message, len, n, numbits, out, err, exitCode>>

EncLoad ==
    /\ pc = "enc_load"
    /\ LET r == RsaKeyLoadPublic(Arg(2))
       IN  /\ calls' = Append(calls, Call("rsa_key_load_public", 0, 0, r.rc))
           /\ heap' = ResUse(heap, {"key"})
           /\ IF KeyLoadFailed(r.rc)
              THEN /\ err' = Append(err, [text |-> "error reading key file", data |-> Arg(2)])
                   /\ rc' = 1
                   /\ pc' = "enc_done"
                   /\ UNCHANGED key
              ELSE /\ key' = r.key
                   /\ rc' = r.rc
                   /\ pc' = "enc_encode"
                   /\ UNCHANGED err
    /\ UNCHANGED <<session, m, c, message, len, n, numbits, out, exitCode>>

EncEncode ==
    /\ pc = "enc_encode"
    /\ m' = encode(CString(Arg(3)))
    /\ heap' = ResUse(heap, {"m"})
    /\ pc' = "enc_encrypt"
    /\ UNCHANGED <<session, rc, key, c, message, len, n, numbits, out, err, exitCode, calls>>

EncEncrypt ==
    /\ pc = "enc_encrypt"
    /\ c' = RsaEncrypt(m, key)
    /\ calls' = Append(calls, Call("rsa_encrypt", m, key.n, 0))
    /\ heap' = ResUse(heap, {"key", "m", "c"})
    /\ pc' = "enc_print"
    /\ UNCHANGED <<session, rc, key, m, message, len, n, numbits, out, err, exitCode>>

\* gmp_printf("%Zd\n", c): the characters written, or -1.
GmpPrintf(x, ok) ==
    IF ok
    THEN [ret |-> Len(FormatZd(x)) + 1,
          written |-> <<[text |-> "%Zd\n", data |-> Append(FormatZd(x), 10)]>>]
    ELSE [ret |-> -1, written |-> <<>>]

EncPrint ==
    /\ pc = "enc_print"
    /\ LET p == GmpPrintf(c, stdoutOk)
       IN  /\ out' = out \o p.written
           /\ calls' = Append(calls, Call("gmp_printf", c, 0, p.ret))
           /\ heap' = ResUse(heap, {"c"})
           /\ IF p.ret = -1
              THEN /\ err' = Append(err, Text("error writing ciphertext"))
                   /\ rc' = 1
              ELSE UNCHANGED <<err, rc>>
    /\ pc' = "enc_done"
    /\ UNCHANGED <<session, key, m, c, message, len, n, numbits, exitCode>>

EncDone ==
    /\ pc = "enc_done"
    /\ heap' = ResClearAll(heap, EncDoneClears)
    /\ calls' = Append(calls, Call("rsa_key_clear", 0, 0, 0))
    /\ Exit(rc)
    /\ UNCHANGED <<session, locals, out, err>>

\* ----------------------------------------------------------- decrypt_mode

\* mpz_set_str(c, c_str, 10) != 0.
CiphertextParseFailed_never(r) == FALSE

CiphertextParseFailed(r) == r # 0

\* fwrite(message, len, 1, stdout) != 1.
PlaintextWriteFailed(r) == r # 1

DecDoneClears == <<"key", "m", "c">>

DecInit ==
    /\ pc = "dec_init"
    /\ key' = ZeroKey /\ m' = 0 /\ c' = 0
    /\ message' = NullMessage
    /\ heap' = ResInitAll(heap, <<"key", "m", "c">>)
    /\ calls' = Append(calls, Call("rsa_key_init", 0, 0, 0))
    /\ pc' = "dec_parse"
    /\ UNCHANGED <<session, rc, len, n, numbits, out, err, exitCode>>

DecParse ==
    /\ pc = "dec_parse"
    /\ LET p == MpzSetStr(Arg(3))
       IN  /\ calls' = Append(calls, Call("mpz_set_str", 0, 0, p.rc))
           /\ heap' = ResUse(heap, {"c"})
           /\ IF CiphertextParseFailed(p.rc)
              THEN /\ err' = Append(err, Text("could not parse ciphertext"))
                   /\ rc' = 1
                   /\ pc' = "dec_done"
                   /\ UNCHANGED c
              ELSE /\ c' = p.value
                   /\ pc' = "dec_load"
                   /\ UNCHANGED <<err, rc>>
    /\ UNCHANGED <<session, key, m, message, len, n, numbits, out, exitCode>>

DecLoad ==
    /\ pc = "dec_load"
    /\ LET r == RsaKeyLoadPrivate(Arg(2))
       IN  /\ calls' = Append(calls, Call("rsa_key_load_private", 0, 0, r.rc))
           /\ heap' = ResUse(heap, {"key"})
           /\ IF KeyLoadFailed(r.rc)
              THEN /\ err' = Append(err, [text |-> "error reading key file", data |-> Arg(2)])
                   /\ rc' = 1
                   /\ pc' = "dec_done"
                   /\ UNCHANGED key
              ELSE /\ key' = r.key
                   /\ rc' = r.rc
                   /\ pc' = "dec_decrypt"
                   /\ UNCHANGED err
    /\ UNCHANGED <<session, m, c, message, len, n, numbits, out, exitCode>>

DecDecrypt ==
    /\ pc = "dec_decrypt"
    /\ m' = RsaDecrypt(c, key)
    /\ calls' = Append(calls, Call("rsa_decrypt", c, key.n, 0))
    /\ heap' = ResUse(heap, {"key", "m", "c"})
    /\ pc' = "dec_decode"
    /\ UNCHANGED <<session, rc, key, c, message, len, n, numbits, out, err, exitCode>>

DecDecode ==
    /\ pc = "dec_decode"
    /\ LET d == decode(m)
       IN  /\ message' = [alloc |-> TRUE, s |-> d.s]
           /\ len' = d.len
    /\ calls' = Append(calls, Call("decode", m, 0, 0))
    /\ heap' = ResInit(ResUse(heap, {"m"}), "message")
    /\ pc' = "dec_write"
    /\ UNCHANGED <<session, rc, key, m, c, n, numbits, out, err, exitCode>>

DecWrite ==
    /\ pc = "dec_write"
    /\ LET w == Fwrite(len, 1, stdoutOk)
       IN  /\ out' = IF w = 1
                     THEN Append(out, [text |-> "fwrite", data |-> SubSeq(message.s, 1, len)])
                     ELSE out
           /\ calls' = Append(calls, Call("fwrite", len, 0, w))
           /\ heap' = ResUse(heap, {"message"})
           /\ IF PlaintextWriteFailed(w)
              THEN /\ err' = Append(err, Text("error writing plaintext"))
                   /\ rc' = 1
              ELSE UNCHANGED <<err, rc>>
    /\ pc' = "dec_done"
    /\ UNCHANGED <<session, key, m, c, message, len, n, numbits, exitCode>>

DecDone ==
    /\ pc = "dec_done"
    /\ heap' = Free(ResClearAll(heap, DecDoneClears), message)
    /\ calls' = Append(calls, Call("rsa_key_clear", 0, 0, 0))
    /\ Exit(rc)
    /\ UNCHANGED <<session, locals, out, err>>

\* ------------------------------------------------------------ genkey_mode

\* endp == numbits_str || errno != 0 || *endp != '\0'.
NumbitsParseFailed(p, str) == p.endp = 1 \/ p.erange \/ p.endp <= Len(str)

\* n > UINT_MAX.
NumbitsTooLarge_never(v) == FALSE

NumbitsTooLarge(v) == v > UINT_MAX

\* rc == -1 after rsa_key_write.
KeyWriteFailed_never(r) == FALSE

KeyWriteFailed(r) == r = -1

GenDoneClears == <<"key">>

\* rsa_genkey(&key, numbits): some fresh key pair.
RsaGenkey(bits) == Keys

GenInit ==
    /\ pc = "gen_init"
    /\ key' = ZeroKey
    /\ heap' = ResInit(heap, "key")
    /\ calls' = Append(calls, Call("rsa_key_init", 0, 0, 0))
    /\ pc' = "gen_parse"
    /\ UNCHANGED <<session, rc, m, c, message, len, n, numbits, out, err, exitCode>>

GenParse ==
    /\ pc = "gen_parse"
    /\ LET p == StrToUL(Arg(2))
       IN  /\ n' = p.value
           /\ calls' = Append(calls, Call("strtoul", 0, 0, p.value))
           /\ IF NumbitsParseFailed(p, Arg(2))
              THEN /\ err' = Append(err, Text("could not parse integer"))
                   /\ rc' = 1
                   /\ pc' = "gen_done"
                   /\ UNCHANGED numbits
              ELSE IF NumbitsTooLarge(p.value)
              THEN /\ err' = Append(err, Text("integer is too large"))
                   /\ rc' = 1
                   /\ pc' = "gen_done"
                   /\ UNCHANGED numbits
              ELSE /\ numbits' = p.value % (UINT_MAX + 1)
                   /\ pc' = "gen_genkey"
                   /\ UNCHANGED <<err, rc>>
    /\ UNCHANGED <<session, key, m, c, message, len, out, exitCode, heap>>

GenGenkey ==
    /\ pc = "gen_genkey"
    /\ \E k \in RsaGenkey(numbits) : key' = k
    /\ calls' = Append(calls, Call("rsa_genkey", numbits, 0, 0))
    /\ heap' = ResUse(heap, {"key"})
    /\ pc' = "gen_write"
    /\ UNCHANGED <<session, rc, m, c, message, len, n, numbits, out, err, exitCode>>

GenWrite ==
    /\ pc = "gen_write"
    /\ \E w \in RsaKeyWriteReturns(stdoutOk) :
           /\ calls' = Append(calls, Call("rsa_key_write", 0, key.n, w))
           /\ rc' = IF KeyWriteFailed(w) THEN 1 ELSE 0
    /\ out' = IF stdoutOk
              THEN Append(out, [text |-> "key", data |-> <<key.n, key.e, key.d>>])
              ELSE out
    /\ heap' = ResUse(heap, {"key"})
    /\ pc' = "gen_done"
    /\ UNCHANGED <<session, key, m, c, message, len, n, numbits, err, exitCode>>

GenDone ==
    /\ pc = "gen_done"
    /\ heap' = ResClearAll(heap, GenDoneClears)
    /\ calls' = Append(calls, Call("rsa_key_clear", 0, 0, 0))
    /\ Exit(rc)
    /\ UNCHANGED <<session, locals, out, err>>

\* ---------------------------------------------------------------- session

\* The ciphertext a successful encrypt printed: its line without the newline.
PrintedCiphertext(o) == SubSeq(o[1].data, 1, Len(o[1].data) - 1)

\* A second process: decrypt, started on the ciphertext the first process
\* (a successful encrypt) printed.
DecryptPrinted ==
    /\ pc = "exit"
    /\ run = 1
    /\ argc = 4
    /\ Arg(1) = CmdEncrypt
    /\ exitCode = 0
    /\ Len(out) = 1
    /\ \E f \in KeyFiles :
           argv' = <<Rsa, CmdDecrypt, f, PrintedCiphertext(out)>>
    /\ stdoutOk' \in BOOLEAN
    /\ prev' = [argv |-> argv, exitCode |-> exitCode, out |-> out]
    /\ run' = 2
    /\ pc' = "main"
    /\ rc' = 0 /\ key' = ZeroKey /\ m' = 0 /\ c' = 0
    /\ message' = NullMessage /\ len' = 0 /\ n' = 0 /\ numbits' = 0
    /\ out' = <<>> /\ err' = <<>> /\ exitCode' = 0
    /\ calls' = <<>>
    /\ heap' = FreshHeap

Next ==
    \/ Main
    \/ EncInit \/ EncLoad \/ EncEncode \/ EncEncrypt \/ EncPrint \/ EncDone
    \/ DecInit \/ DecParse \/ DecLoad \/ DecDecrypt \/ DecDecode \/ DecWrite \/ DecDone
    \/ GenInit \/ GenParse \/ GenGenkey \/ GenWrite \/ GenDone
    \/ DecryptPrinted

Spec == Init /\ [][Next]_vars

\* ------------------------------------------------------- the codec alone

CodecStrings == SeqsUpTo(CodecBytes, MaxCodecLen)

\* encode and decode applied to each other's results: either an integer x
\* (held in m) is decoded and the buffer encoded again (into c), or a byte
\* string (held, NUL-terminated, in message) is encoded (into m) and the
\* integer decoded again (the buffer into out, its length into len).
InitCodec ==
    /\ argv = <<Rsa>> /\ stdoutOk = TRUE
    /\ rc = 0 /\ key = ZeroKey /\ c = 0 /\ n = 0 /\ numbits = 0
    /\ out = <<>> /\ err = <<>> /\ exitCode = 0
    /\ calls = <<>> /\ heap = FreshHeap /\ run = 1
    /\ prev = [argv |-> <<>>, exitCode |-> 0, out |-> <<>>]
    /\ \/ /\ pc = "decode_encode"
          /\ m \in 0..MaxCodecInt
          /\ message = NullMessage /\ len = 0
       \/ /\ pc = "encode_decode"
          /\ m = 0
          /\ \E s \in CodecStrings :
                 message = [alloc |-> TRUE, s |-> CString(s)] /\ len = Len(s)

DecodeEncode ==
    /\ pc = "decode_encode"
    /\ LET d == decode(m)
       IN  /\ message' = [alloc |-> TRUE, s |-> d.s]
           /\ len' = d.len
           /\ c' = encode(d.s)
    /\ pc' = "decode_encode_done"
    /\ UNCHANGED <<session, rc, key, m, n, numbits, out, err, exitCode, calls, heap>>

EncodeDecode ==
    /\ pc = "encode_decode"
    /\ LET x == encode(message.s)
           d == decode(x)
       IN  /\ m' = x
           /\ out' = <<[text |-> "decode", data |-> d.s]>>
           /\ len' = d.len
    /\ pc' = "encode_decode_done"
    /\ UNCHANGED <<session, rc, key, c, message, n, numbits, err, exitCode, calls, heap>>

NextCodec == DecodeEncode \/ EncodeDecode

SpecCodec == InitCodec /\ [][NextCodec]_vars

\* ------------------------------------------------------------- the claims

HelpWords == {CmdDashH, CmdDashDashHelp, CmdHelp}
Subcommands == {CmdEncrypt, CmdDecrypt, CmdGenkey}

Called(fns) == \E i \in 1..Len(calls) : calls[i].fn \in fns

\* The first process was an encrypt of message prev.argv[4] under the key of
\* file prev.argv[3], and this process decrypts what it printed with the
\* private key of the same pair.
MatchingPair ==
    LET pub == RsaKeyLoadPublic(prev.argv[3])
        priv == RsaKeyLoadPrivate(argv[3])
    IN  /\ pub.rc = 0 /\ priv.rc = 0
        /\ pub.key.n = priv.key.n /\ pub.key.e = priv.key.e

\* C1: with standard output writable, an encrypt of a non-empty message whose
\* encoded integer is below n exits 0 having printed one decimal line, and a
\* decrypt of that line with the matching private key exits 0 having written
\* exactly the message's bytes and nothing to standard error.
C1_RoundTrip ==
    /\ (/\ pc = "exit" /\ run = 1 /\ argc = 4 /\ Arg(1) = CmdEncrypt
        /\ stdoutOk /\ RsaKeyLoadPublic(Arg(2)).rc = 0)
       => /\ exitCode = 0
          /\ Len(out) = 1
          /\ MpzSetStr(PrintedCiphertext(out)).rc = 0
    /\ (/\ pc = "exit" /\ run = 2 /\ stdoutOk /\ MatchingPair
        /\ prev.argv[4] # <<>>
        /\ MpzImport(prev.argv[4]) < RsaKeyLoadPrivate(argv[3]).key.n)
       => /\ exitCode = 0
          /\ prev.exitCode = 0
          /\ out = <<[text |-> "fwrite", data |-> prev.argv[4]]>>
          /\ err = <<>>

\* "hi" encrypted under Key2 and decrypted again.
C1_Witness ==
    /\ pc = "exit" /\ run = 2 /\ exitCode = 0
    /\ prev.argv[4] = <<104, 105>>
    /\ out = <<[text |-> "fwrite", data |-> <<104, 105>>]>>

\* C2: decrypting the ciphertext printed for the empty message, with the
\* matching private key and standard output writable, exits 0 with nothing on
\* standard output and nothing on standard error.
C2_EmptyMessage ==
    (/\ pc = "exit" /\ run = 2 /\ stdoutOk /\ MatchingPair
     /\ prev.argv[4] = <<>>)
    => /\ exitCode = 0
       /\ out = <<>>
       /\ err = <<>>

\* C3: encode(decode(x)) = x for every integer x >= 0.
C3_EncodeDecode ==
    pc = "decode_encode_done" => c = m

\* C4: decode(encode(s)) = s for every byte string s that does not start with
\* a zero byte: the same bytes, the same length, a NUL after them.
C4_DecodeEncode ==
    (pc = "encode_decode_done"
     /\ LET s == SubSeq(message.s, 1, Len(message.s) - 1)
        IN  s = <<>> \/ s[1] # 0)
    => /\ out[1].data = message.s
       /\ len = Len(message.s) - 1

\* A step of the process failed: a bad command line, a numbits or ciphertext
\* argument the parser refuses, a key load returning nonzero, or a write to a
\* standard output that takes no writes.
StepFailed ==
    \/ argc < 2
    \/ argc >= 2 /\ Arg(1) \notin HelpWords \cup Subcommands
    \/ argc >= 2 /\ Arg(1) \in {CmdEncrypt, CmdDecrypt} /\ argc # 4
    \/ argc >= 2 /\ Arg(1) = CmdGenkey /\ argc # 3
    \/ argc = 3 /\ Arg(1) = CmdGenkey
       /\ LET p == StrToUL(Arg(2))
          IN  p.endp = 1 \/ p.erange \/ p.endp <= Len(Arg(2)) \/ p.value > UINT_MAX
    \/ \E i \in 1..Len(calls) :
           \/ calls[i].fn \in {"rsa_key_load_public", "rsa_key_load_private", "mpz_set_str"}
              /\ calls[i].ret # 0
           \/ calls[i].fn \in {"gmp_printf", "fwrite", "rsa_key_write"} /\ ~stdoutOk

C6_InRange ==
    \A i \in 1..Len(calls) :
        calls[i].fn \in {"rsa_encrypt", "rsa_decrypt"}
        => 0 <= calls[i].a /\ calls[i].a < calls[i].n

\* The ciphertext argument of this decrypt is refused by the decimal parser.
BadCiphertext == argc = 4 /\ Arg(1) = CmdDecrypt /\ MpzSetStr(Arg(3)).rc # 0

\* C7: a decrypt whose ciphertext argument does not parse never loads the key
\* file, never reaches rsa_decrypt, decode or the plaintext write, writes
\* nothing to standard output, and exits 1 with the parse error on standard
\* error.
C7_BadCiphertext ==
    BadCiphertext
    => /\ ~Called({"rsa_key_load_private", "rsa_decrypt", "decode", "fwrite"})
       /\ out = <<>>
       /\ pc = "exit" => /\ exitCode = 1
                         /\ err = <<Text("could not parse ciphertext")>>

\* decrypt <existing private key> "x".
C7_Witness ==
    /\ pc = "exit" /\ BadCiphertext /\ Arg(2) = PrivFile1 /\ Arg(3) = <<120>>
    /\ exitCode = 1

CryptoCalls ==
    {"rsa_genkey", "rsa_encrypt", "rsa_decrypt", "rsa_key_load_public",
     "rsa_key_load_private", "rsa_key_write"}

BadNumbits ==
    /\ argc = 3 /\ Arg(1) = CmdGenkey
    /\ LET p == StrToUL(Arg(2))
       IN  p.endp = 1 \/ p.erange \/ p.endp <= Len(Arg(2)) \/ p.value > UINT_MAX

WrongArgCount ==
    /\ argc >= 2
    /\ \/ Arg(1) \in {CmdEncrypt, CmdDecrypt} /\ argc # 4
       \/ Arg(1) = CmdGenkey /\ argc # 3

\* C8: with a numbits argument that does not parse or exceeds UINT_MAX, or a
\* subcommand given the wrong number of arguments, no key is generated,
\* loaded or written, nothing is encrypted or decrypted, nothing is written
\* to standard output, and the process exits 1 with a message on standard
\* error.
C8_ArgumentErrors ==
    (BadNumbits \/ WrongArgCount)
    => /\ ~Called(CryptoCalls)
       /\ out = <<>>
       /\ pc = "exit" => exitCode = 1 /\ Len(err) = 1

\* genkey 99: parsed, but larger than UINT_MAX.
C8_Witness ==
    /\ pc = "exit" /\ BadNumbits /\ Arg(2) = <<57, 57>>
    /\ err = <<Text("integer is too large")>>

HelpCase == argc >= 2 /\ Arg(1) \in HelpWords
UnknownCase == argc < 2 \/ Arg(1) \notin HelpWords \cup Subcommands

\* C9 as stated: usage goes to standard error with exit code 1 for no
\* command, an unknown command and a subcommand with the wrong argument
\* count; to standard output with exit code 0 for help, -h and --help.
C9_UsageOnEveryError ==
    pc = "exit"
    => /\ (UnknownCase \/ WrongArgCount) => err = <<UsageText>> /\ exitCode = 1
       /\ HelpCase => exitCode = 0 /\ (stdoutOk => out = <<UsageText>>)

\* C9, amended: usage goes to standard error with exit code 1 for no command
\* and for an unknown command; a subcommand with the wrong argument count
\* gets its own one-line message on standard error instead of the usage
\* text, with exit code 1; help, -h and --help write the usage text to
\* standard output and exit 0.
C9_Usage ==
    pc = "exit"
    => /\ UnknownCase => err = <<UsageText>> /\ out = <<>> /\ exitCode = 1
       /\ WrongArgCount
          => /\ Len(err) = 1 /\ err[1] # UsageText
             /\ err[1].text =
                    (IF Arg(1) = CmdEncrypt THEN "encrypt needs a key filename and a message"
                     ELSE IF Arg(1) = CmdDecrypt
                          THEN "decrypt needs a key filename and a ciphertext"
                     ELSE "genkey needs a number of bits")
             /\ out = <<>>
             /\ exitCode = 1
       /\ HelpCase
          => exitCode = 0 /\ err = <<>> /\ (stdoutOk => out = <<UsageText>>)

\* "rsa encrypt" with no further argument.
C9_Witness ==
    /\ pc = "exit" /\ argv = <<Rsa, CmdEncrypt>>
    /\ err = <<Text("encrypt needs a key filename and a message")>>
    /\ exitCode = 1

\* C10: no resource is used or released unless it is live; when the process
\* exits every resource is either untouched or released exactly once; the
\* decoded buffer exists exactly while message is non-NULL and is released
\* only by the done label's free.
C10_Resources ==
    /\ ~heap.bad
    /\ \A r \in Resources : heap.rel[r] <= 1
    /\ pc = "exit"
       => \A r \in Resources :
              \/ heap.st[r] = "released" /\ heap.rel[r] = 1
              \/ heap.st[r] = "uninit" /\ heap.rel[r] = 0
    /\ pc # "exit" => (message.alloc <=> heap.st["message"] = "live")
    /\ heap.st["message"] = "released" => pc = "exit"
    /\ pc \in {"enc_load", "enc_encode", "enc_encrypt", "enc_print", "enc_done",
               "dec_parse", "dec_load", "dec_decrypt", "dec_decode", "dec_write",
               "dec_done"}
       => \A r \in {"key", "m", "c"} : heap.st[r] = "live"
    /\ pc \in {"gen_parse", "gen_genkey", "gen_write", "gen_done"}
       => heap.st["key"] = "live"

\* A decrypt that decoded a message and released all four resources.
C10_Witness ==
    /\ pc = "exit"
    /\ \A r \in Resources : heap.st[r] = "released" /\ heap.rel[r] = 1

====
